---------------------------- MODULE Spec2Model ----------------------------
(***************************************************************************)
(* Model of the AI project planner: the ProjectPlanner                      *)
(* (src/project_planner.py), the DocumentAnalyzer                           *)
(* (src/document_analyzer.py), text extraction (src/utils.py) and the       *)
(* Streamlit session of src/app.py.                                         *)
(*                                                                          *)
(* A date is its proleptic Gregorian ordinal (datetime.date.toordinal); a   *)
(* rendered date, the value of a Start or Finish cell, is the record of the *)
(* four fields of the format '%a %m/%d/%y'.                                 *)
(***************************************************************************)
EXTENDS Integers, Sequences, FiniteSets, TLC

(***************************************************************************)
(* Python strings                                                           *)
(***************************************************************************)
LowerAlpha == "abcdefghijklmnopqrstuvwxyz"
UpperAlpha == "ABCDEFGHIJKLMNOPQRSTUVWXYZ"
DigitChars == "0123456789"

\* min(S), max(S)
MinOf(S) == CHOOSE x \in S : \A y \in S : x <= y
MaxOf(S) == CHOOSE x \in S : \A y \in S : x >= y

\* Body(v), with v computed once however often Body uses it
Bind(v, Body(_)) == CHOOSE r \in {Body(x) : x \in {v}} : TRUE

\* s[i - 1], a string of one character
At(s, i) == SubSeq(s, i, i)
\* s.index(c) + 1 for a character c of s
IndexIn(c, s) == CHOOSE i \in 1..Len(s) : At(s, i) = c
CharIn(c, s) == \E i \in 1..Len(s) : At(s, i) = c

\* the characters of a string, as a set
Chars(s) == {At(s, i) : i \in 1..Len(s)}
UpperChars == Chars(UpperAlpha)
LowerChars == Chars(LowerAlpha)
DigitSet == Chars(DigitChars)

IsUpper(c) == c \in UpperChars
IsLower(c) == c \in LowerChars
IsDigit(c) == c \in DigitSet
IsAlpha(c) == IsUpper(c) \/ IsLower(c)
\* \w of the re module
IsWordChar(c) == IsAlpha(c) \/ IsDigit(c) \/ c = "_"
\* \s of the re module, and the separator of str.split()
IsSpace(c) == c \in {" ", "\n", "\t"}

ToLower == [c \in UpperChars |-> At(LowerAlpha, IndexIn(c, UpperAlpha))]
ToUpper == [c \in LowerChars |-> At(UpperAlpha, IndexIn(c, LowerAlpha))]
lower_char(c) == IF IsUpper(c) THEN ToLower[c] ELSE c
upper_char(c) == IF IsLower(c) THEN ToUpper[c] ELSE c

\* ''.join(Piece(i) for i in range(lo, hi + 1))
RECURSIVE ConcatRange(_, _, _)
ConcatRange(Piece(_), lo, hi) ==
    IF lo > hi THEN ""
    ELSE IF lo = hi THEN Piece(lo)
    ELSE LET mid == (lo + hi) \div 2
         IN  ConcatRange(Piece, lo, mid) \o ConcatRange(Piece, mid + 1, hi)

\* str.lower()
lower(s) == ConcatRange(LAMBDA i : lower_char(At(s, i)), 1, Len(s))

\* str.title(): a letter that follows a letter is lower-cased, any other letter
\* is upper-cased
title(s) ==
    ConcatRange(LAMBDA i : IF i > 1 /\ IsAlpha(At(s, i - 1))
                           THEN lower_char(At(s, i)) ELSE upper_char(At(s, i)),
                1, Len(s))

\* sub in s
Contains(sub, s) ==
    \E i \in 0..(Len(s) - Len(sub)) : SubSeq(s, i + 1, i + Len(sub)) = sub

\* s[:n] for n >= 0
Prefix(s, n) == SubSeq(s, 1, IF n < Len(s) THEN n ELSE Len(s))

\* the elements of a finite set of integers in increasing order
Sorted(S) ==
    [k \in 1..Cardinality(S) |->
        CHOOSE x \in S : Cardinality({y \in S : y < x}) = k - 1]

\* str.split(): the maximal runs of non-space characters
split(s) ==
    LET starts == {i \in 1..Len(s) :
                      ~IsSpace(At(s, i)) /\ (i = 1 \/ IsSpace(At(s, i - 1)))}
        ends   == {i \in 1..Len(s) :
                      ~IsSpace(At(s, i)) /\ (i = Len(s) \/ IsSpace(At(s, i + 1)))}
        first  == Sorted(starts)
        last   == Sorted(ends)
    IN  [k \in 1..Len(first) |-> SubSeq(s, first[k], last[k])]

\* ' '.join(words)
RECURSIVE join(_)
join(words) ==
    IF words = <<>> THEN ""
    ELSE IF Len(words) = 1 THEN words[1]
    ELSE words[1] \o " " \o join(Tail(words))

\* str(n), f"{n}" of an int
RECURSIVE str_nat(_)
str_nat(n) == IF n < 10 THEN At(DigitChars, n + 1)
              ELSE str_nat(n \div 10) \o At(DigitChars, (n % 10) + 1)
str_int(n) == IF n < 0 THEN "-" \o str_nat(0 - n) ELSE str_nat(n)

\* int(s): defined on an optional sign followed by digits, a ValueError otherwise
IsIntLiteral(s) ==
    LET body == IF s # "" /\ Head(s) = "-" THEN Tail(s) ELSE s
    IN  body # "" /\ \A i \in 1..Len(body) : IsDigit(At(body, i))
RECURSIVE int_nat(_)
int_nat(s) == IF s = "" THEN 0
              ELSE 10 * int_nat(SubSeq(s, 1, Len(s) - 1))
                       + (IndexIn(At(s, Len(s)), DigitChars) - 1)
int_str(s) == IF Head(s) = "-" THEN 0 - int_nat(Tail(s)) ELSE int_nat(s)

(***************************************************************************)
(* datetime.date, strftime and strptime with the format '%a %m/%d/%y'       *)
(***************************************************************************)
DayNames == <<"Mon", "Tue", "Wed", "Thu", "Fri", "Sat", "Sun">>
DaysInMonthTable == <<31, 28, 31, 30, 31, 30, 31, 31, 30, 31, 30, 31>>
DaysBeforeMonthTable == <<0, 31, 59, 90, 120, 151, 181, 212, 243, 273, 304, 334>>

_is_leap(year) == year % 4 = 0 /\ (year % 100 # 0 \/ year % 400 = 0)
_days_in_month(year, month) ==
    IF month = 2 /\ _is_leap(year) THEN 29 ELSE DaysInMonthTable[month]
_days_before_year(year) ==
    LET y == year - 1 IN y * 365 + (y \div 4) - (y \div 100) + (y \div 400)
_days_before_month(year, month) ==
    DaysBeforeMonthTable[month] + (IF month > 2 /\ _is_leap(year) THEN 1 ELSE 0)

\* date(year, month, day).toordinal()
_ymd2ord(year, month, day) ==
    _days_before_year(year) + _days_before_month(year, month) + day

\* date.fromordinal(n) as [year, month, day]
_ord2ymd(ordinal) ==
    LET n0   == ordinal - 1
        n400 == n0 \div 146097
        r400 == n0 % 146097
        n100 == r400 \div 36524
        r100 == r400 % 36524
        n4   == r100 \div 1461
        r4   == r100 % 1461
        n1   == r4 \div 365
        n    == r4 % 365
        year == n400 * 400 + 1 + n100 * 100 + n4 * 4 + n1
    IN  IF n1 = 4 \/ n100 = 4
        THEN [year |-> year - 1, month |-> 12, day |-> 31]
        ELSE LET leapyear == n1 = 3 /\ (n4 # 24 \/ n100 = 3)
                 guess    == (n + 50) \div 32
                 before(m) == DaysBeforeMonthTable[m]
                                + (IF m > 2 /\ leapyear THEN 1 ELSE 0)
                 month    == IF before(guess) > n THEN guess - 1 ELSE guess
             IN  [year |-> year, month |-> month, day |-> n - before(month) + 1]

\* date.weekday(): Monday is 0
weekday(ordinal) == (ordinal + 6) % 7

\* date.strftime('%a %m/%d/%y'): %y keeps the last two digits of the year
strftime(ordinal) ==
    LET ymd == _ord2ymd(ordinal)
    IN  [a |-> DayNames[weekday(ordinal) + 1],
         m |-> ymd.month, d |-> ymd.day, y |-> ymd.year % 100]

\* the year strptime gives a two-digit %y: 69..99 are 1969..1999, 0..68 are
\* 2000..2068
PivotYear(yy) == IF yy < 69 THEN 2000 + yy ELSE 1900 + yy

\* datetime.strptime(s, '%a %m/%d/%y') raises ValueError unless the text has the
\* four fields and they name a day of the calendar; the weekday name is read
\* and not compared with the date
Parses(s) ==
    /\ s.a \in {DayNames[i] : i \in DOMAIN DayNames}
    /\ s.y \in 0..99
    /\ s.m \in 1..12
    /\ s.d \in 1.._days_in_month(PivotYear(s.y), s.m)
strptime(s) == _ymd2ord(PivotYear(s.y), s.m, s.d)

(***************************************************************************)
(* Text constants of the planner                                            *)
(***************************************************************************)
N_SampleProject == "Sample Project"
N_PlanningPhase == "Planning Phase"
N_Untitled == "Untitled Project"
T_SummaryNote == "This roadmap is intended to guide the project execution."

(***************************************************************************)
(* State                                                                    *)
(***************************************************************************)
VARIABLES
    default_start_date, \* ProjectPlanner.default_start_date: the day of construction
    hash_mod10,         \* hash(name) % 10 of this process, per task name
    df,                 \* the DataFrame the planner returned or was handed last
    project_info,       \* the ProjectInfo record the caller holds (None: analysis failed)
    arg_df,             \* df as it was when the last update_plan_dates was called
    arg_date,           \* new_start_date of the last update_plan_dates
    edits,              \* cells the user has edited since the plan was generated
    shifts,             \* calls of update_plan_dates since the plan was generated
    repeated,           \* the last two calls were update_plan_dates with one date
    last_op,            \* the planner operation that ran last
    raised,             \* the body of the last operation raised (and was caught)
    propagated,         \* an exception left the last operation
    issues,             \* the list validate_plan returned last
    models_loaded,      \* DocumentAnalyzer.setup_models returned True
    input_text,         \* the text handed to extract_project_info last
    input_name,         \* the project name handed to it
    summarizer,         \* what the call of the summarizer does on that text
    random_draws,       \* the values random.choice and random.randint give, per sentence
    analysis,           \* what extract_project_info returned last
    session_state,      \* st.session_state: project_plan and project_info
    before,             \* session_state as it was when the last app handler started
    uploaded_file,      \* the file of the last run of the app's generate_project_plan
    document_text,      \* the text extract_document_text gave in that run
    planner_called,     \* the last app handler called the planner
    runs,               \* app handlers run so far
    app_op,             \* the app handler that ran last
    selected_start,     \* the start date of the sidebar in the last Generate run
    timeline_data       \* the entries display_project_timeline built last

plannerVars ==
    <<default_start_date, hash_mod10, df, arg_df, arg_date, edits, shifts, repeated,
      last_op, raised, propagated, issues>>
analyzerVars == <<models_loaded, input_text, input_name, summarizer, random_draws, analysis>>
appVars ==
    <<session_state, before, uploaded_file, document_text, planner_called, runs, app_op,
      selected_start, timeline_data>>

\* Python None
NoneVal == [none |-> TRUE]
\* no call has been made yet
NotRun == [pending |-> TRUE]

\* the summarizer pipeline raises (or was never loaded)
SummaryFails == [ok |-> FALSE, summary_text |-> ""]

\* no document has been analyzed
AnalyzerIdle ==
    /\ models_loaded = TRUE
    /\ input_text = ""
    /\ input_name = ""
    /\ summarizer = SummaryFails
    /\ random_draws = <<>>
    /\ analysis = NotRun

\* the session of a script run that has not handled a button yet
AppIdle ==
    /\ session_state = [project_plan |-> NoneVal, project_info |-> NoneVal]
    /\ before = session_state
    /\ uploaded_file = NoneVal
    /\ document_text = ""
    /\ planner_called = FALSE
    /\ runs = 0
    /\ app_op = "init"
    /\ selected_start = 0
    /\ timeline_data = <<>>

\* dict.get(key, default)
get(dict, key, default) == IF key \in DOMAIN dict THEN dict[key] ELSE default

(***************************************************************************)
(* ProjectPlanner                                                           *)
(***************************************************************************)
\* str(task_id - 1) when hash(name) % 10 < 6 and the task is not the first
_calculate_predecessors(task_id, task_index, tasks) ==
    IF task_index = 0 THEN ""
    ELSE IF task_index > 0 /\ hash_mod10[tasks[task_index + 1]["name"]] < 6
         THEN str_int(task_id - 1)
         ELSE ""

Level1Words ==
    <<"phase", "stage", "planning", "design", "development", "testing", "deployment">>
Level2Words == <<"setup", "configure", "create", "implement">>
Level3Words == <<"review", "validate", "test", "document">>
AnyWordIn(words, text) == \E i \in DOMAIN words : Contains(words[i], text)

\* the lists tried from the last to the first
OutlineLevelLastMatch(task_name) ==
    LET task_lower == lower(task_name)
    IN  IF AnyWordIn(Level3Words, task_lower) THEN 3
        ELSE IF AnyWordIn(Level2Words, task_lower) THEN 2
        ELSE IF AnyWordIn(Level1Words, task_lower) THEN 1
        ELSE 2

_determine_outline_level(task_name) ==
    LET task_lower == lower(task_name)
    IN  IF AnyWordIn(Level1Words, task_lower) THEN 1
        ELSE IF AnyWordIn(Level2Words, task_lower) THEN 2
        ELSE IF AnyWordIn(Level3Words, task_lower) THEN 3
        ELSE 2

_generate_task_notes(task) ==
    LET priority == get(task, "priority", "Medium")
        full     == get(task, "description", "")
        description == IF Len(full) > 100 THEN Prefix(full, 97) \o "..." ELSE full
    IN  "Priority: " \o priority \o ". " \o description

\* f"{duration} days"
DurationText(duration) == str_int(duration) \o " " \o "days"

\* int(d.split()[0])
DurationDays(d) == int_str(split(d)[1])

Max(a, b) == IF a > b THEN a ELSE b

\* a finish date that counts the start day as the first day of the task
FinishDateInclusive(start_date, duration) == start_date + duration - 1

\* finish_date = start_date + timedelta(days=duration)
FinishDate(start_date, duration) == start_date + duration

\* a cursor that advances by half the duration, and not at all for a task of
\* 0 days or 1 day
NextStartHalf(start_date, duration) == start_date + duration \div 2

\* current_date = start_date + timedelta(days=max(1, duration // 2))
NextStart(start_date, duration) == start_date + Max(1, duration \div 2)

\* one pass of the loop over enumerate(tasks), from index i (0-based) on
RECURSIVE task_rows(_, _, _)
task_rows(tasks, i, current_date) ==
    IF i >= Len(tasks) THEN <<>>
    ELSE LET task        == tasks[i + 1]
             task_id     == i + 1
             duration    == get(task, "estimated_duration", 5)
             start_date  == current_date
             finish_date == FinishDate(start_date, duration)
             task_row    == [ID           |-> task_id,
                             Name         |-> task["name"],
                             Active       |-> "Yes",
                             TaskMode     |-> "Auto Scheduled",
                             Duration     |-> DurationText(duration),
                             Start        |-> strftime(start_date),
                             Finish       |-> strftime(finish_date),
                             Predecessors |-> _calculate_predecessors(task_id, i, tasks),
                             OutlineLevel |-> _determine_outline_level(task["name"]),
                             Notes        |-> _generate_task_notes(task)]
         IN  <<task_row>> \o task_rows(tasks, i + 1, NextStart(start_date, duration))

RECURSIVE SumSeq(_)
SumSeq(s) == IF s = <<>> THEN 0 ELSE s[1] + SumSeq(Tail(s))

\* a summary row that takes the project finish from the last row, as if the
\* tasks ran one after the other
SummaryRowFromLastTask(project_name, frame) ==
    IF frame = <<>> THEN <<>>
    ELSE <<[ID           |-> 0,
            Name         |-> project_name,
            Active       |-> "Yes",
            TaskMode     |-> "Auto Scheduled",
            Duration     |-> DurationText(
                                 SumSeq([i \in 1..Len(frame) |->
                                            DurationDays(frame[i].Duration)])),
            Start        |-> frame[1].Start,
            Finish       |-> frame[Len(frame)].Finish,
            Predecessors |-> "",
            OutlineLevel |-> 0,
            Notes        |-> T_SummaryNote]>>

\* the one-row frame of the project summary, or the empty frame
_create_summary_row(project_name, frame) ==
    IF frame = <<>> THEN <<>>
    ELSE LET total_duration ==
                 SumSeq([i \in 1..Len(frame) |->
                            IF Contains("days", frame[i].Duration)
                            THEN DurationDays(frame[i].Duration) ELSE 0])
             start_dates  == {strptime(frame[i].Start) : i \in 1..Len(frame)}
             finish_dates == {strptime(frame[i].Finish) : i \in 1..Len(frame)}
         IN  <<[ID           |-> 0,
                Name         |-> project_name,
                Active       |-> "Yes",
                TaskMode     |-> "Auto Scheduled",
                Duration     |-> DurationText(total_duration),
                Start        |-> strftime(MinOf(start_dates)),
                Finish       |-> strftime(MaxOf(finish_dates)),
                Predecessors |-> "",
                OutlineLevel |-> 0,
                Notes        |-> T_SummaryNote]>>

_create_default_plan ==
    <<[ID           |-> 1,
       Name         |-> N_SampleProject,
       Active       |-> "Yes",
       TaskMode     |-> "Auto Scheduled",
       Duration     |-> DurationText(30),
       Start        |-> strftime(default_start_date),
       Finish       |-> strftime(default_start_date + 30),
       Predecessors |-> "",
       OutlineLevel |-> 1,
       Notes        |-> "Default project plan generated"],
      [ID           |-> 2,
       Name         |-> N_PlanningPhase,
       Active       |-> "Yes",
       TaskMode     |-> "Auto Scheduled",
       Duration     |-> DurationText(5),
       Start        |-> strftime(default_start_date),
       Finish       |-> strftime(default_start_date + 5),
       Predecessors |-> "",
       OutlineLevel |-> 2,
       Notes        |-> "Project planning and requirements gathering"]>>

\* the frame with the ids the rows were built with
RenumberSkipped(frame) == frame

\* df['ID'] = range(1, len(df) + 1)
Renumber(frame) == [i \in 1..Len(frame) |-> [frame[i] EXCEPT !.ID = i]]

\* the try block of generate_project_plan raises: project_info is None
\* (AttributeError on .get) or a task has no 'name' (KeyError)
GenerateRaises(info) ==
    \/ info = NoneVal
    \/ \E i \in DOMAIN get(info, "tasks", <<>>) :
           "name" \notin DOMAIN get(info, "tasks", <<>>)[i]

\* the try block of generate_project_plan, when it does not raise
GenerateBody(info) ==
    LET tasks        == get(info, "tasks", <<>>)
        project_name == get(info, "name", N_Untitled)
        plan_data    == task_rows(tasks, 0, default_start_date)
        summary_row  == _create_summary_row(project_name, plan_data)
    IN  Renumber(summary_row \o plan_data)

\* the except clause of generate_project_plan
GenerateHandler == _create_default_plan

\* generation without the except clause
GenerateUnguarded(info) ==
    IF GenerateRaises(info)
    THEN [returned |-> FALSE, value |-> <<>>]
    ELSE [returned |-> TRUE, value |-> GenerateBody(info)]

\* the call either returns a frame or lets the exception out
generate_project_plan(info) ==
    IF GenerateRaises(info)
    THEN [returned |-> TRUE, value |-> GenerateHandler]
    ELSE [returned |-> TRUE, value |-> GenerateBody(info)]

(***************************************************************************)
(* update_plan_dates                                                        *)
(***************************************************************************)
\* date + timedelta raises OverflowError outside date.min .. date.max
InDateRange(ordinal) == ordinal >= 1 /\ ordinal <= _ymd2ord(9999, 12, 31)

\* one pass of the loop body raises before it writes the row
RowShiftRaises(row, date_diff) ==
    \/ ~Parses(row.Start)
    \/ ~Parses(row.Finish)
    \/ ~InDateRange(strptime(row.Start) + date_diff)
    \/ ~InDateRange(strptime(row.Finish) + date_diff)

ShiftRow(row, date_diff) ==
    [row EXCEPT !.Start  = strftime(strptime(row.Start) + date_diff),
                !.Finish = strftime(strptime(row.Finish) + date_diff)]

\* the try block of update_plan_dates raises
UpdateRaises(frame, new_start_date) ==
    /\ frame # <<>>
    /\ \/ ~Parses(frame[1].Start)
       \/ \E i \in DOMAIN frame :
              RowShiftRaises(frame[i], new_start_date - strptime(frame[1].Start))

\* The frame is written in place, row by row (df.at); an exception in the pass
\* of row i leaves rows 1..i-1 written and the except clause returns the frame
update_plan_dates(frame, new_start_date) ==
    IF frame = <<>> THEN frame
    ELSE IF ~Parses(frame[1].Start) THEN frame
    ELSE LET date_diff == new_start_date - strptime(frame[1].Start)
             failing   == {i \in DOMAIN frame : RowShiftRaises(frame[i], date_diff)}
             stop      == IF failing = {} THEN Len(frame) + 1 ELSE MinOf(failing)
         IN  [i \in 1..Len(frame) |->
                 IF i < stop THEN ShiftRow(frame[i], date_diff) ELSE frame[i]]

(***************************************************************************)
(* Inputs                                                                   *)
(***************************************************************************)
N_Auth == "Auth"
N_WillImplement == "Will Implement The Login Module"
T_Sentence1 == "We will implement the login module in 5 days."
N_Deployment == "Deployment"
T_LongDeploy == "Deploy to production after the critical sign-off of every stakeholder and the final dry run of the rollback plan."

\* the longest task list handed to the planner
MaxTasks == 2

\* task records as the analyzer emits them (durations 0..30), one without a
\* name and one with a name only
TaskPool ==
    { [name |-> "Project Planning", description |-> "Plan project scope and timeline",
       priority |-> "High", estimated_duration |-> 3],
      [name |-> N_WillImplement, description |-> T_Sentence1,
       priority |-> "Low", estimated_duration |-> 5],
      [name |-> "Review Budget", description |-> "Review budget in 0 days.",
       priority |-> "Medium", estimated_duration |-> 0],
      [name |-> N_Deployment, description |-> T_LongDeploy,
       priority |-> "High", estimated_duration |-> 30],
      [name |-> "Write Report"],
      [description |-> "Plan project scope and timeline", priority |-> "Low", estimated_duration |-> 1] }

TaskNames == {t["name"] : t \in {u \in TaskPool : "name" \in DOMAIN u}}

TaskLists == UNION {[1..n -> TaskPool] : n \in 0..MaxTasks}

ProjectInfos ==
    {NoneVal, [name |-> N_Auth]}
        \cup {[name |-> N_Auth, tasks |-> ts] : ts \in TaskLists}
        \cup {[tasks |-> ts] : ts \in {l \in TaskLists : Len(l) = 1}}

\* days on which the planner is constructed (datetime.now().date())
StartDates == {_ymd2ord(2025, 1, 1), _ymd2ord(2026, 12, 20), _ymd2ord(2028, 2, 1)}

\* residues of hash(name) % 10 on either side of the threshold 6
HashResidues == {5, 6}

\* new_start_date values handed to update_plan_dates
TargetDates == {_ymd2ord(2025, 1, 1), _ymd2ord(2025, 2, 1), _ymd2ord(2068, 12, 15)}

\* a Start or Finish cell the user typed that is not in the date format
BadDate == [a |-> "TBD", m |-> 0, d |-> 0, y |-> 0]

(***************************************************************************)
(* The planner as a state machine                                           *)
(***************************************************************************)
vars == <<plannerVars, project_info, analyzerVars, appVars>>

PlannerInit ==
    /\ default_start_date \in StartDates
    /\ hash_mod10 \in [TaskNames -> HashResidues]
    /\ df = <<>>
    /\ arg_df = <<>>
    /\ arg_date = 0
    /\ edits = 0
    /\ shifts = 0
    /\ project_info \in ProjectInfos
    /\ repeated = FALSE
    /\ last_op = "init"
    /\ raised = FALSE
    /\ propagated = FALSE
    /\ issues = <<>>
    /\ AnalyzerIdle
    /\ AppIdle

\* planner.generate_project_plan(project_info)
GeneratePlan ==
    LET outcome == generate_project_plan(project_info)
    IN  /\ df' = outcome.value
        /\ propagated' = ~outcome.returned
        /\ raised' = GenerateRaises(project_info)
        /\ last_op' = "generate"
        /\ arg_df' = <<>>
        /\ arg_date' = 0
        /\ repeated' = FALSE
        /\ edits' = 0
        /\ shifts' = 0
        /\ issues' = <<>>
        /\ UNCHANGED <<default_start_date, hash_mod10, project_info>>
        /\ UNCHANGED <<analyzerVars, appVars>>

Init == PlannerInit

Next == GeneratePlan

Spec == Init /\ [][Next]_vars

(***************************************************************************)
(* The planner on tasks whose names hold words of one, of several and of    *)
(* none of the three word lists                                             *)
(***************************************************************************)
LevelNames ==
    {"Design Phase", "Stage Setup", "Testing", "Deployment", "DEVELOPMENT",
     "Setup Server", "Create Test Document", "Implement Login",
     "Review Budget", "Validate Input", "Write Report", "Kickoff"}

LevelTaskLists ==
    UNION {[1..n -> {[name |-> task_name, estimated_duration |-> 4] :
                        task_name \in LevelNames}] : n \in 1..MaxTasks}

LevelsInit ==
    /\ default_start_date = _ymd2ord(2025, 1, 1)
    /\ hash_mod10 \in {[n \in LevelNames |-> r] : r \in HashResidues}
    /\ project_info \in {NoneVal} \cup {[name |-> N_Auth, tasks |-> ts] : ts \in LevelTaskLists}
    /\ df = <<>>
    /\ arg_df = <<>>
    /\ arg_date = 0
    /\ edits = 0
    /\ shifts = 0
    /\ repeated = FALSE
    /\ last_op = "init"
    /\ raised = FALSE
    /\ propagated = FALSE
    /\ issues = <<>>
    /\ AnalyzerIdle
    /\ AppIdle

SpecLevels == LevelsInit /\ [][Next]_vars

(***************************************************************************)
(* The planner with its date shift: a caller that generates a plan, edits   *)
(* Start and Finish cells and shifts the plan with update_plan_dates        *)
(***************************************************************************)
\* Start and Finish cells that may hold text that does not parse, at a time
MaxBadCells == 1
\* cell edits between two generations
MaxEdits == 2
\* date shifts between two generations
MaxShifts == 2

DatesInfos ==
    { NoneVal,
      [name |-> N_Auth, tasks |-> <<>>],
      [name |-> N_Auth,
       tasks |-> <<[name |-> N_Deployment, description |-> T_LongDeploy,
                    priority |-> "High", estimated_duration |-> 30],
                   [name |-> N_WillImplement, description |-> T_Sentence1,
                    priority |-> "Low", estimated_duration |-> 5]>>] }

\* what the user types into a Start or Finish cell: text out of the format, or
\* a date in the format (whose weekday name is not that of the day)
EditedDates == {BadDate, [a |-> "Mon", m |-> 3, d |-> 18, y |-> 25]}

AllParse(frame) ==
    \A i \in DOMAIN frame : Parses(frame[i].Start) /\ Parses(frame[i].Finish)
BadCells(frame) ==
    Cardinality({i \in DOMAIN frame : ~Parses(frame[i].Start)})
        + Cardinality({i \in DOMAIN frame : ~Parses(frame[i].Finish)})

DatesInit ==
    /\ default_start_date \in {_ymd2ord(2025, 1, 1), _ymd2ord(2026, 12, 20)}
    /\ hash_mod10 = [n \in TaskNames |-> 5]
    /\ project_info \in DatesInfos
    /\ df = <<>>
    /\ arg_df = <<>>
    /\ arg_date = 0
    /\ edits = 0
    /\ shifts = 0
    /\ repeated = FALSE
    /\ last_op = "init"
    /\ raised = FALSE
    /\ propagated = FALSE
    /\ issues = <<>>
    /\ AnalyzerIdle
    /\ AppIdle

\* planner.update_plan_dates(df, new_start_date)
UpdatePlanDates(new_start_date) ==
    /\ last_op # "init"
    /\ shifts < MaxShifts
    /\ shifts' = shifts + 1
    /\ df' = update_plan_dates(df, new_start_date)
    /\ raised' = UpdateRaises(df, new_start_date)
    /\ propagated' = FALSE
    /\ arg_df' = df
    /\ arg_date' = new_start_date
    /\ repeated' = (last_op = "update" /\ arg_date = new_start_date)
    /\ last_op' = "update"
    /\ UNCHANGED <<default_start_date, hash_mod10, project_info, edits, issues>>
    /\ UNCHANGED <<analyzerVars, appVars>>

\* the user overwrites the Start or the Finish cell of row i
EditDate(i, column, text) ==
    /\ last_op # "init"
    /\ edits < MaxEdits
    /\ LET edited == [df EXCEPT ![i][column] = text]
       IN  /\ BadCells(edited) <= MaxBadCells
           /\ edited # df
           /\ df' = edited
    /\ edits' = edits + 1
    /\ last_op' = "edit"
    /\ arg_df' = <<>>
    /\ arg_date' = 0
    /\ repeated' = FALSE
    /\ raised' = FALSE
    /\ propagated' = FALSE
    /\ UNCHANGED <<default_start_date, hash_mod10, project_info, shifts, issues>>
    /\ UNCHANGED <<analyzerVars, appVars>>

DatesNext ==
    \/ GeneratePlan
    \/ \E new_start_date \in TargetDates : UpdatePlanDates(new_start_date)
    \/ \E i \in DOMAIN df, column \in {"Start", "Finish"}, text \in EditedDates :
           EditDate(i, column, text)

SpecDates == DatesInit /\ [][DatesNext]_vars

(***************************************************************************)
(* validate_plan                                                            *)
(***************************************************************************)
required_cols == <<"ID", "Name", "Duration", "Start", "Finish">>
date_cols == <<"Start", "Finish">>

\* a Name cell that holds None or NaN, for which isna() is True; it is written
\* as a text that no task name equals
NullName == "<NA>"

\* a Start or Finish cell holds text (and not None, NaN or a Timestamp)
IsText(cell) == "a" \in DOMAIN cell

\* the items of repr(list) of column names
RECURSIVE ReprItems(_)
ReprItems(cols) ==
    IF cols = <<>> THEN ""
    ELSE "'" \o cols[1] \o "'" \o (IF Len(cols) > 1 THEN ", " ELSE "")
             \o ReprItems(Tail(cols))

\* the cells the date loop hands to strptime, in the order it visits them
RECURSIVE DateCells(_, _)
DateCells(frame, c) ==
    IF c > Len(date_cols) THEN <<>>
    ELSE (IF date_cols[c] \in DOMAIN frame[1]
          THEN [i \in 1..Len(frame) |-> frame[i][date_cols[c]]]
          ELSE <<>>) \o DateCells(frame, c + 1)

\* validate_plan(df): the list it returns, or the exception that leaves it.
\* df['Name'] raises KeyError when the column is missing; strptime raises
\* TypeError on a cell that is not text, and only ValueError is caught
validate_plan(frame) ==
    IF frame = <<>>
    THEN [returned |-> TRUE, value |-> <<"Project plan is empty">>, exception |-> ""]
    ELSE LET columns      == DOMAIN frame[1]
             missing_cols == SelectSeq(required_cols, LAMBDA col : col \notin columns)
             missing      == IF missing_cols # <<>>
                             THEN <<"Missing columns: [" \o ReprItems(missing_cols) \o "]">>
                             ELSE <<>>
         IN  IF "Name" \notin columns
             THEN [returned |-> FALSE, value |-> <<>>, exception |-> "KeyError"]
             ELSE LET empty_names ==
                          IF \E i \in DOMAIN frame : frame[i].Name = NullName
                          THEN <<"Some tasks have empty names">> ELSE <<>>
                      cells   == DateCells(frame, 1)
                      failing == {k \in DOMAIN cells :
                                     ~IsText(cells[k]) \/ ~Parses(cells[k])}
                  IN  IF failing = {}
                      THEN [returned |-> TRUE, value |-> missing \o empty_names,
                            exception |-> ""]
                      ELSE IF ~IsText(cells[MinOf(failing)])
                      THEN [returned |-> FALSE, value |-> <<>>, exception |-> "TypeError"]
                      ELSE [returned |-> TRUE,
                            value |-> missing \o empty_names
                                          \o <<"Invalid date format detected">>,
                            exception |-> "ValueError"]

(***************************************************************************)
(* A caller that generates a plan, removes columns or overwrites cells and  *)
(* hands the plan to validate_plan                                          *)
(***************************************************************************)
\* the columns the caller may remove
DroppedColumns == {"ID", "Name", "Start", "Finish", "Notes"}

\* what the caller writes into a cell of a column
CellEdits ==
    [Name |-> {NullName}, Start |-> {BadDate, NoneVal}, Finish |-> {BadDate, NoneVal}]

\* the plan is handed on without the column
DropColumn(column) ==
    /\ df # <<>>
    /\ column \in DOMAIN df[1]
    /\ edits < MaxEdits
    /\ df' = [i \in 1..Len(df) |-> [k \in (DOMAIN df[i]) \ {column} |-> df[i][k]]]
    /\ edits' = edits + 1
    /\ last_op' = "edit"
    /\ raised' = FALSE
    /\ propagated' = FALSE
    /\ UNCHANGED <<default_start_date, hash_mod10, project_info, arg_df, arg_date,
                   repeated, shifts, issues>>
    /\ UNCHANGED <<analyzerVars, appVars>>

\* a cell of row i is overwritten
SetCell(i, column, value) ==
    /\ column \in DOMAIN df[i]
    /\ edits < MaxEdits
    /\ df[i][column] # value
    /\ df' = [df EXCEPT ![i][column] = value]
    /\ edits' = edits + 1
    /\ last_op' = "edit"
    /\ raised' = FALSE
    /\ propagated' = FALSE
    /\ UNCHANGED <<default_start_date, hash_mod10, project_info, arg_df, arg_date,
                   repeated, shifts, issues>>
    /\ UNCHANGED <<analyzerVars, appVars>>

\* planner.validate_plan(df)
ValidatePlan ==
    \E outcome \in {validate_plan(df)} :
        /\ issues' = outcome.value
        /\ propagated' = ~outcome.returned
        /\ raised' = (outcome.exception # "")
        /\ last_op' = "validate"
        /\ arg_df' = df
        /\ UNCHANGED <<default_start_date, hash_mod10, project_info, df, arg_date,
                       repeated, edits, shifts>>
        /\ UNCHANGED <<analyzerVars, appVars>>

ValidateNext ==
    \/ GeneratePlan
    \/ \E column \in DroppedColumns : DropColumn(column)
    \/ \E i \in DOMAIN df, column \in DOMAIN CellEdits :
           \E value \in CellEdits[column] : SetCell(i, column, value)
    \/ ValidatePlan

SpecValidate == DatesInit /\ [][ValidateNext]_vars

(***************************************************************************)
(* DocumentAnalyzer                                                         *)
(***************************************************************************)
\* setup_models, after pipeline(...) returned
task_keywords ==
    <<"implement", "develop", "create", "build", "design", "test", "deploy",
      "configure", "setup", "install", "analyze", "review", "prepare",
      "execute", "complete", "finish", "deliver", "validate", "verify">>
phase_keywords ==
    <<"phase", "stage", "milestone", "iteration", "sprint", "release",
      "planning", "analysis", "design", "development", "testing", "deployment">>
high_priority_words == <<"critical", "urgent", "important", "key", "essential">>

\* s.strip()
strip(s) ==
    LET inked == {i \in 1..Len(s) : ~IsSpace(At(s, i))}
    IN  IF inked = {} THEN "" ELSE SubSeq(s, MinOf(inked), MaxOf(inked))

\* re.sub(r'\s+', ' ', text)
CollapseSpaces(s) ==
    ConcatRange(LAMBDA i : IF ~IsSpace(At(s, i)) THEN At(s, i)
                           ELSE IF i > 1 /\ IsSpace(At(s, i - 1)) THEN "" ELSE " ",
                1, Len(s))

\* the characters re.sub(r'[^\w\s\.,!?;:\-()]', '', text) keeps
IsKeptChar(c) == IsWordChar(c) \/ IsSpace(c) \/ CharIn(c, ".,!?;:-()")
KeepAllowed(s) ==
    ConcatRange(LAMBDA i : IF IsKeptChar(At(s, i)) THEN At(s, i) ELSE "", 1, Len(s))

_clean_text(text) == strip(KeepAllowed(CollapseSpaces(text)))

\* nltk.sent_tokenize: a sentence ends with '.', '!' or '?' followed by white
\* space or by the end of the text
IsSentenceEnd(s, i) ==
    CharIn(At(s, i), ".!?") /\ (i = Len(s) \/ IsSpace(At(s, i + 1)))
sent_tokenize(text) ==
    LET s      == strip(text)
        ends   == Sorted({i \in 1..Len(s) : IsSentenceEnd(s, i) \/ i = Len(s)})
        starts == [k \in 1..Len(ends) |-> IF k = 1 THEN 1 ELSE ends[k - 1] + 1]
    IN  [k \in 1..Len(ends) |-> strip(SubSeq(s, starts[k], ends[k]))]

\* the index of the first element of words that holds, as a substring, the
\* lower-cased keyword; 0 when there is none (keyword_index == -1)
KeywordIndex(words, keyword) ==
    LET key  == lower(keyword)
        hits == {i \in DOMAIN words : Contains(key, lower(words[i]))}
    IN  IF hits = {} THEN 0 ELSE MinOf(hits)

\* re.sub(r'[^\w\s]', ' ', name)
PunctuationToSpace(s) ==
    ConcatRange(LAMBDA i : IF IsWordChar(At(s, i)) \/ IsSpace(At(s, i))
                           THEN At(s, i) ELSE " ",
                1, Len(s))

\* the name taken from the keyword on, without the word before it
TaskNameFromKeyword(sentence, keyword) ==
    LET words         == split(sentence)
        keyword_index == KeywordIndex(words, keyword)
    IN  IF keyword_index = 0 THEN ""
        ELSE LET last == IF Len(words) < keyword_index + 3
                         THEN Len(words) ELSE keyword_index + 3
             IN  title(join(split(PunctuationToSpace(
                     join(SubSeq(words, keyword_index, last))))))

\* the task name, or "" where the code returns None or an empty name (the
\* caller tests only its truth value)
_generate_task_name(sentence, keyword) ==
    LET words         == split(sentence)
        keyword_index == KeywordIndex(words, keyword)
    IN  IF keyword_index = 0 THEN ""
        ELSE LET first      == Max(1, keyword_index - 1)
                 last       == IF Len(words) < keyword_index + 3
                               THEN Len(words) ELSE keyword_index + 3
                 task_words == SubSeq(words, first, last)
                 task_name  == join(split(PunctuationToSpace(join(task_words))))
             IN  title(task_name)

\* random.choice(['Medium', 'Low']) is the argument choice
_estimate_priority(sentence, choice) ==
    LET sentence_lower == lower(sentence)
    IN  IF \E i \in DOMAIN high_priority_words :
               Contains(high_priority_words[i], sentence_lower)
        THEN "High"
        ELSE choice

\* the end of the run of decimal digits that starts at i
RECURSIVE DigitRunEnd(_, _)
DigitRunEnd(s, i) ==
    IF i < Len(s) /\ IsDigit(At(s, i + 1)) THEN DigitRunEnd(s, i + 1) ELSE i
\* the first position at or after i that holds no white space
RECURSIVE SkipSpaces(_, _)
SkipSpaces(s, i) == IF i <= Len(s) /\ IsSpace(At(s, i)) THEN SkipSpaces(s, i + 1) ELSE i

\* a match of (\d+)\s*unit starts at s[i]
UnitMatchAt(s, i, unit) ==
    /\ IsDigit(At(s, i))
    /\ (i = 1 \/ ~IsDigit(At(s, i - 1)))
    /\ LET k == SkipSpaces(s, DigitRunEnd(s, i) + 1)
       IN  k + Len(unit) - 1 <= Len(s) /\ SubSeq(s, k, k + Len(unit) - 1) = unit

\* the starts of the matches of (\d+)\s*unit in s
UnitMatches(s, unit) == {i \in 1..Len(s) : UnitMatchAt(s, i, unit)}

\* the patterns in the order of duration_patterns, with the factor for a day
duration_patterns == <<[unit |-> "day", days |-> 1],
                       [unit |-> "week", days |-> 7],
                       [unit |-> "month", days |-> 30]>>

Min(a, b) == IF a < b THEN a ELSE b

\* random.randint(1, 10) is the argument randint
_estimate_duration(sentence, randint) ==
    LET s       == lower(sentence)
        found   == [p \in DOMAIN duration_patterns |->
                       UnitMatches(s, duration_patterns[p].unit)]
        matched == {p \in DOMAIN duration_patterns : found[p] # {}}
    IN  IF matched = {} THEN randint
        ELSE LET p     == MinOf(matched)
                 start == MinOf(found[p])
                 num   == SubSeq(s, start, DigitRunEnd(s, start))
             IN  Min(int_str(num) * duration_patterns[p].days, 30)

\* the first keyword of the list that the lower-cased sentence holds, 0 for none
FirstKeyword(keywords, sentence) ==
    LET sentence_lower == lower(sentence)
        hits == {k \in DOMAIN keywords : Contains(keywords[k], sentence_lower)}
    IN  IF hits = {} THEN 0 ELSE MinOf(hits)

\* the sentence reaches _generate_task_name: it holds a keyword and has more
\* than 3 words
IsTaskSentence(sentence) ==
    FirstKeyword(task_keywords, sentence) # 0 /\ Len(split(sentence)) > 3

\* what one pass of the loop over the sentences appends to tasks
SentenceTasks(sentence, draw) ==
    IF ~IsTaskSentence(sentence) THEN <<>>
    ELSE LET keyword   == task_keywords[FirstKeyword(task_keywords, sentence)]
             task_name == _generate_task_name(sentence, keyword)
         IN  IF task_name # "" /\ Len(task_name) < 100
             THEN <<[name |-> task_name,
                     description |-> Prefix(sentence, 200),
                     priority |-> _estimate_priority(sentence, draw.choice),
                     estimated_duration |-> _estimate_duration(sentence, draw.randint)]>>
             ELSE <<>>

_generate_default_tasks ==
    <<[name |-> "Project Planning", description |-> "Plan project scope and timeline",
       priority |-> "High", estimated_duration |-> 3],
      [name |-> "Requirements Analysis", description |-> "Analyze project requirements",
       priority |-> "High", estimated_duration |-> 5],
      [name |-> "System Design", description |-> "Design system architecture",
       priority |-> "Medium", estimated_duration |-> 7],
      [name |-> "Development Phase 1", description |-> "Initial development phase",
       priority |-> "High", estimated_duration |-> 10],
      [name |-> "Testing", description |-> "Test system functionality",
       priority |-> "High", estimated_duration |-> 5],
      [name |-> "Deployment", description |-> "Deploy to production",
       priority |-> "Medium", estimated_duration |-> 2]>>

RECURSIVE Flatten(_)
Flatten(seqs) == IF seqs = <<>> THEN <<>> ELSE seqs[1] \o Flatten(Tail(seqs))

\* extraction that returns what the loop found, with no default tasks
ExtractTasksNoFallback(text, draws) ==
    Bind(sent_tokenize(text), LAMBDA sentences :
        Bind(Flatten([i \in 1..Len(sentences) |-> SentenceTasks(sentences[i], draws[i])]),
             LAMBDA found : SubSeq(found, 1, Min(Len(found), 15))))

\* draws[i] holds the random values the pass of sentence i may use
_extract_tasks(text, draws) ==
    Bind(sent_tokenize(text), LAMBDA sentences :
        Bind(Flatten([i \in 1..Len(sentences) |-> SentenceTasks(sentences[i], draws[i])]),
             LAMBDA found :
                 LET tasks == IF found = <<>> THEN _generate_default_tasks ELSE found
                 IN  SubSeq(tasks, 1, Min(Len(tasks), 15))))

_extract_phase_name(sentence, keyword) ==
    LET words == split(sentence)
        i     == KeywordIndex(words, keyword)
    IN  IF i = 0 THEN ""
        ELSE LET first == Max(1, i - 2)
                 last  == Min(Len(words), i + 2)
             IN  title(join(split(PunctuationToSpace(join(SubSeq(words, first, last))))))

SentencePhases(sentence) ==
    LET k == FirstKeyword(phase_keywords, sentence)
    IN  IF k = 0 THEN <<>>
        ELSE LET phase_name == _extract_phase_name(sentence, phase_keywords[k])
             IN  IF phase_name # "" THEN <<phase_name>> ELSE <<>>

\* list(dict.fromkeys(phases)): the first occurrence of every element, in order
RECURSIVE Dedupe(_)
Dedupe(s) ==
    IF s = <<>> THEN <<>>
    ELSE LET init == Dedupe(SubSeq(s, 1, Len(s) - 1))
             x    == s[Len(s)]
         IN  IF \E i \in DOMAIN init : init[i] = x THEN init ELSE Append(init, x)

\* the phases of all sentences, the repeated ones too
ExtractPhasesRepeated(text) ==
    Bind(sent_tokenize(text), LAMBDA sentences :
        Bind(Flatten([i \in 1..Len(sentences) |-> SentencePhases(sentences[i])]),
             LAMBDA phases : SubSeq(phases, 1, Min(Len(phases), 5))))

_extract_phases(text) ==
    Bind(sent_tokenize(text), LAMBDA sentences :
        Bind(Dedupe(Flatten([i \in 1..Len(sentences) |-> SentencePhases(sentences[i])])),
             LAMBDA phases : SubSeq(phases, 1, Min(Len(phases), 5))))

\* the summarizer is missing (setup_models failed) or its call raised: the
\* first three sentences; otherwise the summary the model gave
_extract_description(text, summary_ok, summary) ==
    IF summary_ok THEN summary
    ELSE Bind(sent_tokenize(Prefix(text, 1000)), LAMBDA sentences :
             IF sentences # <<>>
             THEN join(SubSeq(sentences, 1, Min(Len(sentences), 3)))
             ELSE "Project description not available")

\* n decimal digits stand at s[i .. i+n-1]
DigitsAt(s, i, n) ==
    i + n - 1 <= Len(s) /\ \A k \in i..(i + n - 1) : IsDigit(At(s, k))
\* one of the characters of [/-] stands at s[i]
DateSepAt(s, i) == i <= Len(s) /\ At(s, i) \in {"/", "-"}

\* the length of the match of \d{1,2}[/-]\d{1,2}[/-]\d{2,4} that starts at i,
\* 0 when there is none
NumericDateLen(s, i) ==
    LET fits == {ab \in {1, 2} \X {1, 2} :
                    /\ DigitsAt(s, i, ab[1])
                    /\ DateSepAt(s, i + ab[1])
                    /\ DigitsAt(s, i + ab[1] + 1, ab[2])
                    /\ DateSepAt(s, i + ab[1] + ab[2] + 1)
                    /\ DigitsAt(s, i + ab[1] + ab[2] + 2, 2)}
    IN  IF fits = {} THEN 0
        ELSE LET ab   == CHOOSE x \in fits : TRUE
                 year == i + ab[1] + ab[2] + 2
             IN  year - i + MaxOf({n \in 2..4 : DigitsAt(s, year, n)})

\* the length of the match of \d{4}-\d{2}-\d{2} that starts at i, 0 for none
IsoDateLen(s, i) ==
    IF /\ DigitsAt(s, i, 4) /\ i + 4 <= Len(s) /\ At(s, i + 4) = "-"
       /\ DigitsAt(s, i + 5, 2) /\ i + 7 <= Len(s) /\ At(s, i + 7) = "-"
       /\ DigitsAt(s, i + 8, 2)
    THEN 10 ELSE 0

MonthNames ==
    <<"january", "february", "march", "april", "may", "june", "july", "august",
      "september", "october", "november", "december">>

\* the month whose name stands at s[i ..], 0 for none
MonthAt(s, i) ==
    LET hits == {m \in DOMAIN MonthNames :
                    /\ i + Len(MonthNames[m]) - 1 <= Len(s)
                    /\ SubSeq(s, i, i + Len(MonthNames[m]) - 1) = MonthNames[m]}
    IN  IF hits = {} THEN 0 ELSE MinOf(hits)

\* the length of the match of (january|...|december)\s+\d{1,2},?\s+\d{4} that
\* starts at i, 0 for none
MonthDateLen(s, i) ==
    LET m == MonthAt(s, i)
    IN  IF m = 0 THEN 0
        ELSE LET day  == SkipSpaces(s, i + Len(MonthNames[m]))
                 fits == {n \in {1, 2} :
                             /\ day > i + Len(MonthNames[m])
                             /\ DigitsAt(s, day, n)
                             /\ LET comma == IF day + n <= Len(s) /\ At(s, day + n) = ","
                                             THEN 1 ELSE 0
                                    year  == SkipSpaces(s, day + n + comma)
                                IN  year > day + n + comma /\ DigitsAt(s, year, 4)}
             IN  IF fits = {} THEN 0
                 ELSE LET n     == MaxOf(fits)
                          comma == IF At(s, day + n) = "," THEN 1 ELSE 0
                      IN  SkipSpaces(s, day + n + comma) + 4 - i

\* re.findall: the matches from left to right, none overlapping another;
\* lens[i] is the length of the match that starts at i, 0 for none
RECURSIVE findall(_, _)
findall(lens, pos) ==
    LET rest == {i \in DOMAIN lens : i >= pos /\ lens[i] > 0}
    IN  IF rest = {} THEN <<>>
        ELSE LET i == MinOf(rest)
             IN  <<[start |-> i, len |-> lens[i]]>> \o findall(lens, i + lens[i])

\* the matches of (\d+)\s*(day|week|month)s? as (number, unit) pairs
DurationMentions(s) ==
    LET units  == {duration_patterns[p].unit : p \in DOMAIN duration_patterns}
        starts == Sorted({i \in 1..Len(s) : \E u \in units : UnitMatchAt(s, i, u)})
    IN  [k \in 1..Len(starts) |->
            <<SubSeq(s, starts[k], DigitRunEnd(s, starts[k])),
              CHOOSE u \in units : UnitMatchAt(s, starts[k], u)>>]

\* the timeline dict: a key is present only when its list is not empty
_extract_timeline_info(text) ==
    LET s        == lower(text)
        numeric  == findall([i \in 1..Len(s) |-> NumericDateLen(s, i)], 1)
        iso      == findall([i \in 1..Len(s) |-> IsoDateLen(s, i)], 1)
        month    == findall([i \in 1..Len(s) |-> MonthDateLen(s, i)], 1)
        dates    == [k \in 1..Len(numeric) |->
                        SubSeq(s, numeric[k].start, numeric[k].start + numeric[k].len - 1)]
                    \o [k \in 1..Len(iso) |->
                        SubSeq(s, iso[k].start, iso[k].start + iso[k].len - 1)]
                    \o [k \in 1..Len(month) |-> MonthNames[MonthAt(s, month[k].start)]]
        duration_matches == DurationMentions(s)
    IN  (IF dates # <<>>
         THEN [mentioned_dates |-> SubSeq(dates, 1, Min(Len(dates), 5))] ELSE <<>>)
        @@ (IF duration_matches # <<>>
            THEN [durations |-> SubSeq(duration_matches, 1, Min(Len(duration_matches), 3))]
            ELSE <<>>)

\* extract_project_info: None when the body raises. It raises exactly when
\* setup_models failed before it set task_keywords (the pipeline could not be
\* loaded) and the loop of _extract_tasks reaches a sentence
extract_project_info(text, name, loaded, summarizer_call, draws) ==
    Bind(_clean_text(text), LAMBDA cleaned :
        IF ~loaded /\ sent_tokenize(cleaned) # <<>> THEN NoneVal
        ELSE [name        |-> name,
              description |-> _extract_description(cleaned, loaded /\ summarizer_call.ok,
                                                   summarizer_call.summary_text),
              tasks       |-> _extract_tasks(cleaned, draws),
              timeline    |-> _extract_timeline_info(cleaned),
              phases      |-> _extract_phases(cleaned)])

(***************************************************************************)
(* The analyzer as a state machine: one document, analyzed once             *)
(***************************************************************************)
T_Sentence2 == "Then we will test the module for 2 days."
T_NoKeyword == "The weather is nice today."
T_ShortKeyword == "Deploy it now."
T_LongName == "Now deploy internationalization-and-localization-resources configuration-management-database-synchronizer telecommunications-infrastructure-monitoring today."
T_Review == "It is critical to review the budget soon."
T_SystemDesign == "We like the system design."
T_Symbols == "@@@ ###"
T_Summary == "The team builds and tests a login module."
N_WillTest == "Will Test The Module For"
T_WeeksThenDays == "We will deliver the report in 2 weeks and review it in 3 days."
T_Wordy == "We will prepare the rollout plan together with the operations group, the support desk, the security office, the data protection officer, the finance controller, the procurement lead, the regional managers and the external auditors of the company during 6 weeks."
\* the text of the example of the specification
T_Example == T_Sentence1 \o " " \o T_Sentence2

\* the sentences a document is made of
SentencePool ==
    <<T_Sentence1, T_Sentence2, T_NoKeyword, T_ShortKeyword, T_LongName, T_Review,
      T_SystemDesign, T_WeeksThenDays>>

\* the most sentences of a document
MaxSentences == 2

\* the sentences of the pool at the positions picked, in the order of the pool
Document(picked) ==
    LET at == Sorted(picked) IN join([k \in 1..Len(at) |-> SentencePool[at[k]]])

\* the sentences of the long document that follow its first one
MaxLongSentences == 17

\* sentence k of the long document: a task of k weeks in one of seven
\* releases, each release named by two sentences in a row
ManySentence(k) ==
    "We will build release " \o str_nat((((k + 1) \div 2) % 7) + 1) \o " of the tool in "
        \o str_nat(k) \o " weeks."

\* a document of more than 15 task sentences that name more than 5 phases,
\* some of them twice, after a sentence of more than 200 characters
T_Many == T_Wordy \o " " \o join([k \in 1..MaxLongSentences |-> ManySentence(k)])

Documents ==
    {Document(picked) :
        picked \in {P \in SUBSET DOMAIN SentencePool : Cardinality(P) <= MaxSentences}}
        \cup {T_Symbols, T_Many}

\* random.choice(['Medium', 'Low']) and random.randint(1, 10)
DrawPool == {[choice |-> "Medium", randint |-> 1], [choice |-> "Low", randint |-> 10]}
Draws == [1..MaxSentences -> DrawPool]
\* the draws of the analysis of a text; those of the long document are the
\* same for every sentence
DrawsFor(text) ==
    IF text = T_Many THEN {[i \in 1..(MaxLongSentences + 1) |-> d] : d \in DrawPool}
    ELSE Draws

\* the summarizer returns a summary or raises
SummarizerCalls == {SummaryFails, [ok |-> TRUE, summary_text |-> T_Summary]}

\* a planner that is constructed and not called
PlannerIdle ==
    /\ default_start_date = _ymd2ord(2025, 1, 1)
    /\ df = <<>>
    /\ arg_df = <<>>
    /\ arg_date = 0
    /\ edits = 0
    /\ shifts = 0
    /\ repeated = FALSE
    /\ last_op = "init"
    /\ raised = FALSE
    /\ propagated = FALSE
    /\ issues = <<>>

\* the call to come: its text, project name, summarizer outcome and draws
AnalyzerInputs ==
    /\ input_text \in Documents
    /\ input_name = N_Auth
    /\ summarizer \in SummarizerCalls
    /\ random_draws \in DrawsFor(input_text)
    /\ analysis = NotRun
    /\ project_info = NoneVal
    /\ hash_mod10 = [n \in TaskNames |-> 5]
    /\ PlannerIdle
    /\ AppIdle

\* an analyzer whose setup_models returned True
AnalyzerInit == models_loaded = TRUE /\ AnalyzerInputs

\* an analyzer as DocumentAnalyzer() leaves it: pipeline(...) returned, or it
\* raised and setup_models returned False before it set the keyword lists
LoadInit == models_loaded \in BOOLEAN /\ AnalyzerInputs

\* analyzer.extract_project_info(text, project_name)
Analyze ==
    /\ analysis = NotRun
    /\ analysis' = extract_project_info(input_text, input_name, models_loaded,
                                        summarizer, random_draws)
    /\ UNCHANGED <<models_loaded, input_text, input_name, summarizer, random_draws>>
    /\ UNCHANGED <<plannerVars, project_info, appVars>>

AnalyzerNext == Analyze

SpecAnalyzer == AnalyzerInit /\ [][AnalyzerNext]_vars

SpecLoad == LoadInit /\ [][AnalyzerNext]_vars

(***************************************************************************)
(* Text extraction (src/utils.py)                                           *)
(***************************************************************************)
MIME_pdf == "application/pdf"
MIME_docx == "application/vnd.openxmlformats-officedocument.wordprocessingml.document"
MIME_txt == "text/plain"
MIME_png == "image/png"

\* An uploaded file: its MIME type, the texts the reader of its type finds in
\* it (the pages of a PDF, the paragraphs of a DOCX, the decoded content of a
\* TXT) and whether that reader can read it at all (it raises otherwise)
File(type, parts, readable) == [type |-> type, parts |-> parts, readable |-> readable]

\* text += part + "\n" for every page or paragraph
RECURSIVE LinesOf(_)
LinesOf(parts) ==
    IF parts = <<>> THEN "" ELSE parts[1] \o "\n" \o LinesOf(Tail(parts))

extract_text_from_pdf(pdf_file) ==
    IF pdf_file.readable THEN LinesOf(pdf_file.parts) ELSE ""
extract_text_from_docx(docx_file) ==
    IF docx_file.readable THEN LinesOf(docx_file.parts) ELSE ""
extract_text_from_txt(txt_file) ==
    IF txt_file.readable THEN txt_file.parts[1] ELSE ""

extract_document_text(file) ==
    IF file = NoneVal THEN ""
    ELSE IF file.type = MIME_pdf THEN extract_text_from_pdf(file)
    ELSE IF file.type = MIME_docx THEN extract_text_from_docx(file)
    ELSE IF file.type = MIME_txt THEN extract_text_from_txt(file)
    ELSE ""

\* re.sub(r'\n+', '\n', text)
CollapseNewlines(s) ==
    ConcatRange(LAMBDA i : IF At(s, i) = "\n" /\ i > 1 /\ At(s, i - 1) = "\n"
                           THEN "" ELSE At(s, i),
                1, Len(s))

clean_text(text) == strip(CollapseSpaces(CollapseNewlines(text)))

(***************************************************************************)
(* The Streamlit session (src/app.py)                                       *)
(***************************************************************************)
\* a DataFrame held in the session, which None is not
Stored(frame) == [frame |-> frame]

\* the run that stores the analysis before it tests it
GenerateStoresUntested(session, name, file, start_date, loaded, summarizer_call, draws) ==
    LET document == extract_document_text(file)
        cleaned  == clean_text(document)
        stops(info) ==
            [session |-> [session EXCEPT !.project_info = info], document_text |-> document,
             analysis |-> info, cleaned_text |-> cleaned, planner_called |-> FALSE]
        plans(info, outcome) ==
            [session |->
                 [project_info |-> info,
                  project_plan |->
                      IF outcome.returned /\ outcome.value # <<>>
                      THEN Stored(update_plan_dates(outcome.value, start_date))
                      ELSE session.project_plan],
             document_text |-> document, analysis |-> info,
             cleaned_text |-> cleaned, planner_called |-> TRUE]
    IN  IF strip(document) = ""
        THEN [session |-> session, document_text |-> document, analysis |-> NotRun,
              cleaned_text |-> "", planner_called |-> FALSE]
        ELSE Bind(extract_project_info(cleaned, name, loaded, summarizer_call, draws),
                  LAMBDA info :
                      IF info = NoneVal THEN stops(info)
                      ELSE Bind(generate_project_plan(info),
                                LAMBDA outcome : plans(info, outcome)))

\* generate_project_plan(project_name, uploaded_file, start_date) of app.py on
\* the session given: the session it leaves, with the text it extracted, the
\* text it handed to the analyzer, what the analyzer returned (NotRun when it
\* was not called) and whether the planner was called. An exception of the
\* planner would be caught and reported; generate_project_plan lets none out
app_generate_project_plan(session, name, file, start_date, loaded, summarizer_call, draws) ==
    LET document == extract_document_text(file)
        cleaned  == clean_text(document)
        stops(info) ==
            [session |-> session, document_text |-> document,
             analysis |-> info, cleaned_text |-> cleaned, planner_called |-> FALSE]
        plans(info, outcome) ==
            [session |->
                 [project_info |-> info,
                  project_plan |->
                      IF outcome.returned /\ outcome.value # <<>>
                      THEN Stored(update_plan_dates(outcome.value, start_date))
                      ELSE session.project_plan],
             document_text |-> document, analysis |-> info,
             cleaned_text |-> cleaned, planner_called |-> TRUE]
    IN  IF strip(document) = ""
        THEN [session |-> session, document_text |-> document, analysis |-> NotRun,
              cleaned_text |-> "", planner_called |-> FALSE]
        ELSE Bind(extract_project_info(cleaned, name, loaded, summarizer_call, draws),
                  LAMBDA info :
                      IF info = NoneVal THEN stops(info)
                      ELSE Bind(generate_project_plan(info),
                                LAMBDA outcome : plans(info, outcome)))

\* the entries display_project_timeline hands to the chart: one for every row
\* whose ID is not 0 and whose Start and Finish parse
display_project_timeline(frame) ==
    Flatten([i \in 1..Len(frame) |->
                IF frame[i].ID = 0 THEN <<>>
                ELSE IF ~(IsText(frame[i].Start) /\ Parses(frame[i].Start)
                            /\ IsText(frame[i].Finish) /\ Parses(frame[i].Finish))
                THEN <<>>
                ELSE <<[Task     |-> frame[i].Name,
                        Start    |-> strptime(frame[i].Start),
                        Finish   |-> strptime(frame[i].Finish),
                        Duration |-> strptime(frame[i].Finish) - strptime(frame[i].Start),
                        Level    |-> frame[i].OutlineLevel]>>])

\* the files a user uploads
T_Blank == "  \n \n"
UploadedFiles ==
    { File(MIME_txt, <<T_Example>>, TRUE),
      File(MIME_txt, <<T_Blank>>, TRUE),
      File(MIME_txt, <<T_Symbols>>, TRUE),
      File(MIME_docx, <<"Meeting notes.", "", "The weather is nice today.">>, TRUE),
      File(MIME_pdf, <<T_Example>>, FALSE),
      File(MIME_png, <<T_Example>>, TRUE) }

\* the start date the user picks in the sidebar
StartDateInputs == {_ymd2ord(2025, 2, 1)}

\* the names of the tasks the analyzer makes of the uploaded files
AnalyzerTaskNames ==
    {_generate_default_tasks[i].name : i \in DOMAIN _generate_default_tasks}
        \cup {N_WillImplement, N_WillTest}

\* the random values of one run, the same for every sentence
AppDraws == {[i \in 1..MaxSentences |-> d] : d \in DrawPool}

\* button handlers of one session
MaxRuns == 2

AppInit ==
    /\ models_loaded \in BOOLEAN
    /\ input_text = ""
    /\ input_name = ""
    /\ summarizer = SummaryFails
    /\ random_draws = <<>>
    /\ analysis = NotRun
    /\ project_info = NoneVal
    /\ hash_mod10 = [n \in TaskNames \cup AnalyzerTaskNames |-> 5]
    /\ PlannerIdle
    /\ AppIdle

\* the "Generate Project Plan" button
GenerateButton(name, file, start_date, summarizer_call, draws) ==
    \E run \in {app_generate_project_plan(session_state, name, file, start_date,
                                            models_loaded, summarizer_call, draws)} :
        /\ runs < MaxRuns
        /\ session_state' = run.session
        /\ before' = session_state
        /\ uploaded_file' = file
        /\ document_text' = run.document_text
        /\ planner_called' = run.planner_called
        /\ analysis' = run.analysis
        /\ input_text' = run.cleaned_text
        /\ input_name' = name
        /\ summarizer' = summarizer_call
        /\ random_draws' = draws
        /\ runs' = runs + 1
        /\ app_op' = "generate"
        /\ selected_start' = IF run.planner_called THEN start_date ELSE selected_start
        /\ timeline_data' = <<>>
        /\ UNCHANGED <<models_loaded, plannerVars, project_info>>

\* the "Regenerate" button, shown while a plan is stored
RegenerateButton ==
    /\ runs < MaxRuns
    /\ session_state.project_plan # NoneVal
    /\ session_state.project_info # NoneVal
    /\ session_state' =
           [session_state EXCEPT !.project_plan =
               Stored(generate_project_plan(session_state.project_info).value)]
    /\ before' = session_state
    /\ planner_called' = TRUE
    /\ runs' = runs + 1
    /\ app_op' = "regenerate"
    /\ timeline_data' = <<>>
    /\ UNCHANGED <<selected_start, uploaded_file, document_text, analyzerVars, plannerVars, project_info>>

\* the "Clear Plan" button, shown while a plan is stored
ClearButton ==
    /\ runs < MaxRuns
    /\ session_state.project_plan # NoneVal
    /\ session_state' = [project_plan |-> NoneVal, project_info |-> NoneVal]
    /\ before' = session_state
    /\ planner_called' = FALSE
    /\ runs' = runs + 1
    /\ app_op' = "clear"
    /\ timeline_data' = <<>>
    /\ UNCHANGED <<selected_start, uploaded_file, document_text, analyzerVars, plannerVars, project_info>>

\* the "Show Timeline" button, shown while a plan is stored
TimelineButton ==
    /\ runs < MaxRuns
    /\ session_state.project_plan # NoneVal
    /\ timeline_data' = display_project_timeline(session_state.project_plan.frame)
    /\ before' = session_state
    /\ planner_called' = FALSE
    /\ runs' = runs + 1
    /\ app_op' = "timeline"
    /\ UNCHANGED <<session_state, selected_start, uploaded_file, document_text,
                   analyzerVars, plannerVars, project_info>>

AppNext ==
    \/ \E file \in UploadedFiles, start_date \in StartDateInputs,
          summarizer_call \in SummarizerCalls, draws \in AppDraws :
           GenerateButton(N_Auth, file, start_date, summarizer_call, draws)
    \/ RegenerateButton
    \/ ClearButton
    \/ TimelineButton

SpecApp == AppInit /\ [][AppNext]_vars

(***************************************************************************)
(* Properties of generate_project_plan, under Spec                          *)
(***************************************************************************)
Generated == last_op = "generate" /\ ~propagated

\* the rows of df that are not the synthesized summary row: all but the first
\* of a plan built from tasks, all of the default plan
TaskRowIndices == IF raised THEN DOMAIN df ELSE (DOMAIN df) \ {1}

RowSpan(row) == strptime(row.Finish) - strptime(row.Start)

\* C1: in every plan generate_project_plan returns (built from tasks or the
\* default plan), the Finish of every non-summary row is exactly as many days
\* after its Start as the number rendered in its Duration
C1_FinishMinusStartIsDuration ==
    Generated =>
        \A i \in TaskRowIndices :
            /\ Parses(df[i].Start) /\ Parses(df[i].Finish)
            /\ RowSpan(df[i]) = DurationDays(df[i].Duration)

\* a plan built from tasks that holds a task of 0 days and a task of 30 days
C1_Witness ==
    /\ Generated /\ ~raised /\ Len(df) = 3
    /\ \E i, j \in TaskRowIndices :
           /\ DurationDays(df[i].Duration) = 0
           /\ DurationDays(df[j].Duration) = 30

\* C2: a plan built from a non-empty task list starts with the summary row,
\* whose duration is the sum of the other rows' durations, whose start is
\* their earliest start and whose finish is their latest finish
C2_SummaryAggregates ==
    (Generated /\ ~raised /\ get(project_info, "tasks", <<>>) # <<>>) =>
        /\ Len(df) = Len(project_info.tasks) + 1
        /\ df[1].OutlineLevel = 0
        /\ df[1].Name = get(project_info, "name", N_Untitled)
        /\ df[1].Notes = T_SummaryNote
        /\ DurationDays(df[1].Duration)
               = SumSeq([i \in 1..(Len(df) - 1) |-> DurationDays(df[i + 1].Duration)])
        /\ \A i \in 2..Len(df) :
               /\ strptime(df[1].Start) <= strptime(df[i].Start)
               /\ strptime(df[1].Finish) >= strptime(df[i].Finish)
        /\ \E i \in 2..Len(df) : strptime(df[1].Start) = strptime(df[i].Start)
        /\ \E i \in 2..Len(df) : strptime(df[1].Finish) = strptime(df[i].Finish)

\* a plan of two tasks whose last task finishes before the first one does
C2_Witness ==
    /\ Generated /\ ~raised /\ Len(df) = 3
    /\ strptime(df[3].Finish) < strptime(df[2].Finish)
    /\ DurationDays(df[1].Duration) = 35

\* C6: no exception leaves generate_project_plan; when its body raises, the
\* plan returned is the fixed two-row default plan: 'Sample Project' of 30
\* days and 'Planning Phase' of 5 days, both starting on the planner's
\* default start date, and no row built from the tasks
C6_FallbackDefaultPlan ==
    (last_op = "generate") =>
        /\ ~propagated
        /\ raised =>
               /\ Len(df) = 2
               /\ df[1].Name = N_SampleProject
               /\ df[1].Duration = "30 days"
               /\ df[2].Name = N_PlanningPhase
               /\ df[2].Duration = "5 days"
               /\ \A i \in 1..2 :
                      /\ df[i].ID = i
                      /\ df[i].Start = strftime(default_start_date)
                      /\ strptime(df[i].Start) = default_start_date
                      /\ RowSpan(df[i]) = DurationDays(df[i].Duration)

\* the body raised on the second task, after a row for the first was built
C6_Witness ==
    /\ last_op = "generate" /\ raised
    /\ project_info # NoneVal
    /\ Len(project_info.tasks) = 2
    /\ "name" \in DOMAIN project_info.tasks[1]
    /\ "name" \notin DOMAIN project_info.tasks[2]
    /\ Len(df) = 2

Updated == last_op = "update"

\* C3: shifting a plan whose dates all parse to the date it was just shifted
\* to changes nothing
C3_UpdateIdempotent ==
    (Updated /\ repeated /\ AllParse(arg_df)) => df = arg_df

\* C4: the shift of a plan whose dates all parse moves the Start and the
\* Finish of every row by new_start_date minus the first row's Start: the
\* first row then starts on new_start_date, every row keeps its
\* Finish - Start, and nothing but Start and Finish changes
C4_UniformShift ==
    (Updated /\ arg_df # <<>> /\ AllParse(arg_df)) =>
        LET offset == arg_date - strptime(arg_df[1].Start)
        IN  /\ Len(df) = Len(arg_df)
            /\ AllParse(df)
            /\ strptime(df[1].Start) = arg_date
            /\ \A i \in DOMAIN df :
                   /\ strptime(df[i].Start) = strptime(arg_df[i].Start) + offset
                   /\ strptime(df[i].Finish) = strptime(arg_df[i].Finish) + offset
                   /\ RowSpan(df[i]) = RowSpan(arg_df[i])
                   /\ [df[i] EXCEPT !.Start = arg_df[i].Start,
                                    !.Finish = arg_df[i].Finish] = arg_df[i]

\* C5: when the Start or the Finish of any row does not parse, the plan comes
\* back as it was handed in
C5_FailedShiftLeavesPlan ==
    (Updated /\ ~AllParse(arg_df)) => df = arg_df

(***************************************************************************)
(* Properties of extract_project_info, under SpecAnalyzer                   *)
(***************************************************************************)
Analyzed == analysis # NotRun

\* the sentence holds a task keyword, has more than 3 words and the name made
\* of it is kept
YieldsTask(sentence) ==
    /\ \E k \in DOMAIN task_keywords : Contains(task_keywords[k], lower(sentence))
    /\ Len(split(sentence)) > 3
    /\ LET keyword == task_keywords[FirstKeyword(task_keywords, sentence)]
           name    == _generate_task_name(sentence, keyword)
       IN  name # "" /\ Len(name) < 100

DefaultTaskNames ==
    <<"Project Planning", "Requirements Analysis", "System Design",
      "Development Phase 1", "Testing", "Deployment">>

\* C7: when no sentence of the text yields a task, the tasks returned are the
\* six default tasks in their fixed order; when some sentence yields one, the
\* tasks are those of the yielding sentences, in order, and no default task
\* is among them
C7_DefaultTasksIffNoneExtracted ==
    Analyzed =>
        /\ analysis # NoneVal
        /\ LET sentences == sent_tokenize(_clean_text(input_text))
               yielding  == Sorted({i \in DOMAIN sentences : YieldsTask(sentences[i])})
               tasks     == analysis.tasks
           IN  /\ yielding = <<>> =>
                      /\ [i \in DOMAIN tasks |-> tasks[i].name] = DefaultTaskNames
                      /\ tasks = _generate_default_tasks
               /\ yielding # <<>> =>
                      /\ Len(tasks) = Min(Len(yielding), 15)
                      /\ \A k \in DOMAIN tasks :
                             /\ tasks[k].description = Prefix(sentences[yielding[k]], 200)
                             /\ \A j \in DOMAIN _generate_default_tasks :
                                    tasks[k] # _generate_default_tasks[j]

\* a text of two sentences with a task keyword, one of three words and one
\* whose name has 100 characters or more: the default tasks are returned
C7_Witness ==
    /\ Analyzed
    /\ input_text = T_ShortKeyword \o " " \o T_LongName
    /\ Len(analysis.tasks) = 6
    /\ analysis.tasks[6].name = "Deployment"

\* the example text was analyzed under the name "Auth"
ExampleAnalyzed == Analyzed /\ input_text = T_Example /\ input_name = N_Auth

\* C8 as the specification states it: the tasks of the example text include
\* one whose name contains "Implement Login Module", of 5 days, and one whose
\* name contains "Test Module", of 2 days
C8_ExampleNamesAsStated ==
    ExampleAnalyzed =>
        /\ analysis # NoneVal
        /\ \E i \in DOMAIN analysis.tasks :
               /\ Contains("Implement Login Module", analysis.tasks[i].name)
               /\ analysis.tasks[i].estimated_duration = 5
        /\ \E i \in DOMAIN analysis.tasks :
               /\ Contains("Test Module", analysis.tasks[i].name)
               /\ analysis.tasks[i].estimated_duration = 2

\* C8 amended: the tasks of the example text include one named "Will
\* Implement The Login Module", of 5 days, and one named "Will Test The Module
\* For", of 2 days (the keyword, the word before it and the three after it)
C8_ExampleNamesAsBuilt ==
    ExampleAnalyzed =>
        /\ analysis # NoneVal
        /\ \E i \in DOMAIN analysis.tasks :
               /\ analysis.tasks[i].name = N_WillImplement
               /\ analysis.tasks[i].estimated_duration = 5
        /\ \E i \in DOMAIN analysis.tasks :
               /\ analysis.tasks[i].name = N_WillTest
               /\ analysis.tasks[i].estimated_duration = 2

\* the example text was analyzed and gave two tasks
C8_Witness == ExampleAnalyzed /\ analysis # NoneVal /\ Len(analysis.tasks) = 2

(***************************************************************************)
(* Properties of the app's generate_project_plan, under SpecApp             *)
(***************************************************************************)
SupportedTypes == {MIME_pdf, MIME_docx, MIME_txt}

\* C10: a run of the app's generate_project_plan whose extracted text is
\* empty or blank (as it is for an unsupported MIME type, which gives no
\* text), or whose analysis returned None, does not call the planner and
\* leaves the stored project_plan and project_info as they were
C10_FailedRunIsTerminal ==
    (app_op = "generate") =>
        /\ uploaded_file.type \notin SupportedTypes => document_text = ""
        /\ (strip(document_text) = "" \/ analysis = NoneVal) =>
               /\ ~planner_called
               /\ session_state = before

\* the analysis of the second run returned None while a plan and its
\* project_info were stored
C10_Witness ==
    /\ app_op = "generate"
    /\ analysis = NoneVal
    /\ before.project_plan # NoneVal
    /\ before.project_info # NoneVal
    /\ session_state = before


(***************************************************************************)
(* Properties of validate_plan, under SpecValidate                          *)
(***************************************************************************)
Validated == last_op = "validate"

\* the plan has rows, every required column, no null name and dates that parse
WellFormed(frame) ==
    /\ frame # <<>>
    /\ \A c \in DOMAIN required_cols : required_cols[c] \in DOMAIN frame[1]
    /\ \A i \in DOMAIN frame :
           /\ frame[i].Name # NullName
           /\ IsText(frame[i].Start) /\ Parses(frame[i].Start)
           /\ IsText(frame[i].Finish) /\ Parses(frame[i].Finish)

\* C11: validate_plan returns a list of issues for every plan and lets no
\* exception out, and the list is empty exactly when the plan has rows, all
\* required columns, no null name and only Start and Finish values that parse
C11_ValidateReturnsIssues ==
    Validated =>
        /\ ~propagated
        /\ (issues = <<>>) <=> WellFormed(arg_df)


(***************************************************************************)
(* Properties of the ProjectInfo record, under SpecAnalyzer                 *)
(***************************************************************************)
\* the descriptions of tasks[t..] are the first 200 characters of sentences of
\* sentences[k..], one sentence for a task, in the order of the sentences
RECURSIVE DescribedInOrder(_, _, _, _)
DescribedInOrder(tasks, sentences, t, k) ==
    IF t > Len(tasks) THEN TRUE
    ELSE IF k > Len(sentences) THEN FALSE
    ELSE IF tasks[t].description = Prefix(sentences[k], 200)
         THEN DescribedInOrder(tasks, sentences, t + 1, k + 1)
         ELSE DescribedInOrder(tasks, sentences, t, k + 1)

\* C12: a ProjectInfo returned holds 1 to 15 tasks, which are the default
\* tasks or come one from a sentence in the order of the sentences; every name
\* is shorter than 100 characters, every description has at most 200, every
\* priority is High, Medium or Low and every duration is at most 30 days; it
\* holds at most 5 phases, none twice, in the order of their first occurrence
C12_ProjectInfoWellFormed ==
    (Analyzed /\ analysis # NoneVal) =>
        LET tasks     == analysis.tasks
            phases    == analysis.phases
            sentences == sent_tokenize(_clean_text(input_text))
            named     == [i \in DOMAIN sentences |-> SentencePhases(sentences[i])]
            first     == [j \in DOMAIN phases |->
                             {i \in DOMAIN sentences : named[i] = <<phases[j]>>}]
        IN  /\ Len(tasks) >= 1 /\ Len(tasks) <= 15
            /\ \/ tasks = _generate_default_tasks
               \/ DescribedInOrder(tasks, sentences, 1, 1)
            /\ \A k \in DOMAIN tasks :
                   /\ Len(tasks[k].name) < 100
                   /\ Len(tasks[k].description) <= 200
                   /\ tasks[k].priority \in {"High", "Medium", "Low"}
                   /\ tasks[k].estimated_duration <= 30
            /\ Len(phases) <= 5
            /\ \A j, k \in DOMAIN phases : j # k => phases[j] # phases[k]
            /\ \A j \in DOMAIN phases : first[j] # {}
            /\ \A j, k \in DOMAIN phases : j < k => MinOf(first[j]) < MinOf(first[k])

\* the long document: 15 tasks of its 18 task sentences, a description cut to
\* 200 characters, a duration capped at 30 and 5 of its 7 phases, the second
\* of which a sentence repeats before the third is named
C12_Witness ==
    /\ Analyzed
    /\ input_text = T_Many
    /\ Len(sent_tokenize(_clean_text(input_text))) = MaxLongSentences + 1
    /\ Len(analysis.tasks) = 15
    /\ Len(analysis.tasks[1].description) = 200
    /\ analysis.tasks[1].estimated_duration = 30
    /\ analysis.tasks[2].priority = "Low"
    /\ Len(analysis.phases) = 5
    /\ analysis.phases[2] = "Will Build Release 3 Of"


(***************************************************************************)
(* Properties of the rows of a generated plan, under Spec                   *)
(***************************************************************************)
\* C13: in a plan returned by generate_project_plan the first task row has no
\* predecessor, and the Predecessors value of every other task row is empty or
\* is the ID, as the returned table carries it, of the task row before it
C13_PredecessorIsPreviousTask ==
    (Generated /\ df # <<>>) =>
        \A i \in TaskRowIndices :
            IF i - 1 \in TaskRowIndices
            THEN df[i].Predecessors \in {"", str_int(df[i - 1].ID)}
            ELSE df[i].Predecessors = ""

\* C14: in a plan built from tasks the first task starts on the planner's
\* default start date and every following task starts max(1, duration // 2)
\* days after the start of the task before it, duration being that of the task
\* before; the starts increase strictly and the summary row starts with the
\* first task
C14_CursorAdvance ==
    (Generated /\ ~raised /\ df # <<>>) =>
        /\ strptime(df[2].Start) = default_start_date
        /\ strptime(df[1].Start) = strptime(df[2].Start)
        /\ \A i \in 3..Len(df) :
               /\ strptime(df[i].Start)
                      = strptime(df[i - 1].Start)
                            + Max(1, DurationDays(df[i - 1].Duration) \div 2)
               /\ strptime(df[i].Start) > strptime(df[i - 1].Start)

\* a plan whose first task has 0 days and whose second task starts a day later
C14_Witness ==
    /\ Generated /\ ~raised /\ Len(df) = 3
    /\ DurationDays(df[2].Duration) = 0
    /\ strptime(df[3].Start) = default_start_date + 1


(***************************************************************************)
(* Properties of the outline levels, under SpecLevels                       *)
(***************************************************************************)
\* the lower-cased name holds one of the words
HoldsAny(name, words) == \E w \in words : Contains(w, lower(name))

FirstMentionDays(sentence) ==
    LET s        == lower(sentence)
        mentions == {m \in (1..Len(s)) \X DOMAIN duration_patterns :
                        UnitMatchAt(s, m[1], duration_patterns[m[2]].unit)}
    IN  IF mentions = {} THEN 0
        ELSE LET at == MinOf({m[1] : m \in mentions})
                 p  == CHOOSE q \in DOMAIN duration_patterns : <<at, q>> \in mentions
             IN  int_str(SubSeq(s, at, DigitRunEnd(s, at))) * duration_patterns[p].days

HasMention(sentence) ==
    \E i \in 1..Len(sentence), p \in DOMAIN duration_patterns :
        UnitMatchAt(lower(sentence), i, duration_patterns[p].unit)

\* C16: the estimated duration of a task made of a sentence that mentions
\* durations is that of the first mention in the sentence, in days (a week is
\* 7 days, a month 30) and at most 30; a sentence with no mention gets a
\* number from 1 to 10
C16_DurationFromFirstMention ==
    (Analyzed /\ analysis # NoneVal /\ analysis.tasks # _generate_default_tasks) =>
        \A k \in DOMAIN analysis.tasks :
            LET sentence == analysis.tasks[k].description
                duration == analysis.tasks[k].estimated_duration
            IN  Len(sentence) < 200 =>
                    IF HasMention(sentence)
                    THEN duration = Min(FirstMentionDays(sentence), 30)
                    ELSE duration \in 1..10


(***************************************************************************)
(* Properties of a failing summarizer, under SpecLoad                       *)
(***************************************************************************)
\* C17: when the summarization model failed to load or its call raises, the
\* analysis still returns a ProjectInfo: its description is the first three
\* sentences of the cleaned text and its tasks, phases and timeline are those
\* extracted from the text
C17_SummarizerFailureDegradesDescription ==
    (Analyzed /\ (~models_loaded \/ ~summarizer.ok)) =>
        /\ analysis # NoneVal
        /\ LET cleaned   == _clean_text(input_text)
               sentences == sent_tokenize(cleaned)
           IN  /\ sentences # <<>> =>
                      analysis.description
                          = join(SubSeq(sentences, 1, Min(Len(sentences), 3)))
               /\ analysis.tasks = _extract_tasks(cleaned, random_draws)
               /\ analysis.phases = _extract_phases(cleaned)
               /\ analysis.timeline = _extract_timeline_info(cleaned)


(***************************************************************************)
(* Properties of the session, under SpecApp                                 *)
(***************************************************************************)
\* a plan with rows is stored in the session
PlanStored ==
    session_state.project_plan # NoneVal /\ session_state.project_plan.frame # <<>>

\* C18: whenever a plan is stored, its first row starts on the start date the
\* user selected for the Generate run that made it, also after Regenerate
C18_PlanStartsOnSelectedDate ==
    PlanStored => strptime(session_state.project_plan.frame[1].Start) = selected_start

\* C19: the timeline holds an entry for every task row of the stored plan and
\* none for its first row, the project summary
C19_TimelineSkipsSummary ==
    (app_op = "timeline" /\ PlanStored) =>
        LET frame == session_state.project_plan.frame
        IN  /\ Len(timeline_data) = Len(frame) - 1
            /\ \A k \in DOMAIN timeline_data :
                   /\ timeline_data[k].Level # 0
                   /\ timeline_data[k].Task = frame[k + 1].Name


=============================================================================
